---------------------------- MODULE Spec2Model ----------------------------
(***************************************************************************)
(* Model of collectionhelpers.sequence_helper decorating the List class of *)
(* test.py: the augmented __getitem__, __setitem__, __delitem__ and insert *)
(* built on the author's primitives, which accept only in-range            *)
(* non-negative integers.                                                  *)
(*                                                                         *)
(* The helper never inspects the elements it moves, so a container is      *)
(* built as List(range(n)): every element names the position it started    *)
(* at.  Assigned values are negative, so they differ from every element.   *)
(*                                                                         *)
(* The helper keeps no state of its own: what a call does depends on the   *)
(* contents at the call and on its arguments alone.  Each behaviour        *)
(* therefore builds a container, makes one augmented call on it with       *)
(* arguments drawn from the sets below, and records the primitive calls    *)
(* the operation issued and what it returned or raised.                    *)
(*                                                                         *)
(* Spec is the sequence helper, MapSpec the mapping helper, ViewSpec the    *)
(* assignment of the container's backing list to one of its slices.        *)
(***************************************************************************)
EXTENDS Integers, Sequences, FiniteSets, TLC

\* Longest container that is built.
MaxLen == 5
\* Largest absolute value of a slice step.
MaxStep == 2

VARIABLES
    items,      \* self._list of the container under test (MapSpec: the
                \* mapping, its self._dict and whether it has __missing__)
    pc,         \* "built": constructed, no call yet; "returned": a call
                \* returned; "inserting" (ViewSpec): inside the insert loop
    call,       \* the augmented operation called and its arguments
    old,        \* the contents when the call was made
    log,        \* the primitive calls the operation issued, in order
    result      \* what the call returned or raised (ViewSpec, while
                \* inserting: the iterator and the next insert index)

vars == <<items, pc, call, old, log, result>>

(***************************************************************************)
(* Python values                                                           *)
(***************************************************************************)
\* None, and a present optional value, of a slice's start, stop and step.
None == <<>>
Some(v) == <<v>>

\* range(n) as a sequence: <<0, ..., n-1>>.
Range0(n) == [k \in 1..n |-> k - 1]

\* An iterable of n values that is not the container: <<-1, ..., -n>>.
Fresh(n) == [k \in 1..n |-> 0 - k]

Max(a, b) == IF a >= b THEN a ELSE b

\* s[lo:hi] of Python for 0 <= lo, hi <= len(s): empty when lo >= hi.
Slice(s, lo, hi) == [k \in 1..Max(hi - lo, 0) |-> s[lo + k]]

Rev(s) == [k \in 1..Len(s) |-> s[Len(s) + 1 - k]]

(***************************************************************************)
(* The author's class: List of test.py.  A state st of one operation is    *)
(* [items, log, err]: the contents, the primitive calls made so far and    *)
(* the exception raised ("none" while running).                            *)
(***************************************************************************)
NoErr == "none"

Start(its) == [items |-> its, log |-> <<>>, err |-> NoErr]

Raise(st, e) == [st EXCEPT !.err = e]

\* One call of a primitive, with the length the container had then.
Logged(st, p, i) ==
    [st EXCEPT !.log = Append(@, [prim |-> p, i |-> i, len |-> Len(st.items)])]

\* List.__getitem__: assert 0 <= index < len(self); return self._list[index]
ListGetitem(st, i) ==
    LET s1 == Logged(st, "get", i) IN
    IF 0 <= i /\ i < Len(st.items)
    THEN [st |-> s1, val |-> st.items[i + 1]]
    ELSE [st |-> Raise(s1, "AssertionError"), val |-> 0]

\* List.__delitem__: assert 0 <= index < len(self); del self._list[index]
ListDelitem(st, i) ==
    LET s1 == Logged(st, "del", i) IN
    IF 0 <= i /\ i < Len(st.items)
    THEN [s1 EXCEPT !.items = SubSeq(@, 1, i) \o SubSeq(@, i + 2, Len(@))]
    ELSE Raise(s1, "AssertionError")

\* List.__setitem__: assert 0 <= index < len(self); self._list[index] = value
ListSetitem(st, i, v) ==
    LET s1 == Logged(st, "set", i) IN
    IF 0 <= i /\ i < Len(st.items)
    THEN [s1 EXCEPT !.items[i + 1] = v]
    ELSE Raise(s1, "AssertionError")

\* List.insert: assert 0 <= index <= len(self); self._list.insert(index, value)
ListInsert(st, i, v) ==
    LET s1 == Logged(st, "ins", i) IN
    IF 0 <= i /\ i <= Len(st.items)
    THEN [s1 EXCEPT !.items = SubSeq(@, 1, i) \o <<v>> \o SubSeq(@, i + 1, Len(@))]
    ELSE Raise(s1, "AssertionError")

(***************************************************************************)
(* Index conversion                                                        *)
(***************************************************************************)
\* slice.indices(n) with the bounds of a positive step used for a negative
\* step too.
SliceIndicesOneSided(s, n) ==
    LET step  == IF s.step = None THEN 1 ELSE s.step[1]
        Adj(x) == IF x < 0
                  THEN (IF x + n < 0 THEN 0 ELSE x + n)
                  ELSE (IF x > n THEN n ELSE x)
        start == IF s.start = None
                 THEN (IF step < 0 THEN n ELSE 0)
                 ELSE Adj(s.start[1])
        stop  == IF s.stop = None
                 THEN (IF step < 0 THEN 0 ELSE n)
                 ELSE Adj(s.stop[1])
    IN  IF step = 0
        THEN [err |-> "ValueError:step", start |-> 0, stop |-> 0, step |-> 1]
        ELSE [err |-> "none", start |-> start, stop |-> stop, step |-> step]

\* slice.indices(n): (start, stop, step) with the defaults filled in and
\* start, stop wrapped and clamped; ValueError for a zero step.
SliceIndices(s, n) ==
    LET step  == IF s.step = None THEN 1 ELSE s.step[1]
        lower == IF step < 0 THEN 0 - 1 ELSE 0
        upper == IF step < 0 THEN n - 1 ELSE n
        Adj(x) == IF x < 0
                  THEN (IF x + n < lower THEN lower ELSE x + n)
                  ELSE (IF x > upper THEN upper ELSE x)
        start == IF s.start = None
                 THEN (IF step < 0 THEN upper ELSE lower)
                 ELSE Adj(s.start[1])
        stop  == IF s.stop = None
                 THEN (IF step < 0 THEN lower ELSE upper)
                 ELSE Adj(s.stop[1])
    IN  IF step = 0
        THEN [err |-> "ValueError:step", start |-> 0, stop |-> 0, step |-> 1]
        ELSE [err |-> NoErr, start |-> start, stop |-> stop, step |-> step]

\* len(range(start, stop, step)).
RangeLen(start, stop, step) ==
    IF step > 0
    THEN (IF start < stop THEN (stop - start + step - 1) \div step ELSE 0)
    ELSE (IF start > stop THEN (start - stop - step - 1) \div (0 - step) ELSE 0)

\* range(start, stop, step) as the sequence of its members.
RangeSeq(start, stop, step) ==
    [k \in 1..RangeLen(start, stop, step) |-> start + (k - 1) * step]

\* deslice: range(*index.indices(len(self))), with the range's start kept.
deslice(its, index) ==
    LET t == SliceIndices(index, Len(its)) IN
    [err |-> t.err, start |-> t.start,
     seq |-> IF t.err = NoErr THEN RangeSeq(t.start, t.stop, t.step) ELSE <<>>]

\* _posintify without the wraparound of a negative index.
_posintifyNoWrap(its, index) ==
    IF index.kind = "bad"
    THEN [err |-> "TypeError", val |-> 0]
    ELSE [err |-> "none", val |-> index.val]

\* _posintify: an int, or index.__index__(); a negative one gets len(self)
\* added once.
_posintify(its, index) ==
    IF index.kind = "bad"
    THEN [err |-> "TypeError", val |-> 0]
    ELSE [err |-> NoErr,
          val |-> IF index.val < 0 THEN index.val + Len(its) ELSE index.val]

\* posintify that accepts len(self) itself.
posintifyOffByOne(its, index) ==
    IF index.kind = "bad"
    THEN [err |-> "TypeError", val |-> 0]
    ELSE LET v == IF index.val < 0 THEN index.val + Len(its) ELSE index.val IN
         IF v < 0 \/ v > Len(its)
         THEN [err |-> "IndexError", val |-> 0]
         ELSE [err |-> "none", val |-> v]

\* posintify: IndexError outside [0, len(self)).
posintify(its, index) ==
    LET r == _posintify(its, index) IN
    IF r.err # NoErr THEN r
    ELSE IF r.val < 0 \/ r.val >= Len(its)
         THEN [err |-> "IndexError", val |-> 0]
         ELSE r

\* posinttruncify without the clamp to len(self).
posinttruncifyNoUpper(its, index) ==
    LET r == _posintify(its, index) IN
    IF r.err # NoErr THEN r
    ELSE [err |-> NoErr, val |-> IF r.val < 0 THEN 0 ELSE r.val]

\* posinttruncify: clamped into [0, len(self)].
posinttruncify(its, index) ==
    LET r == _posintify(its, index) IN
    IF r.err # NoErr THEN r
    ELSE LET a == IF r.val < 0 THEN 0 ELSE r.val
             b == IF a > Len(its) THEN Len(its) ELSE a
         IN  [err |-> NoErr, val |-> b]

(***************************************************************************)
(* __getitem__                                                             *)
(***************************************************************************)
\* (_getitem(self, i) for i in idx), consumed to the end: the values in
\* order; a failing primitive ends it.
RECURSIVE GetEach(_, _, _)
GetEach(st, idx, acc) ==
    IF idx = <<>> THEN [st |-> st, val |-> acc]
    ELSE LET r == ListGetitem(st, Head(idx)) IN
         IF r.st.err # NoErr THEN [st |-> r.st, val |-> acc]
         ELSE GetEach(r.st, Tail(idx), Append(acc, r.val))

\* __getitem__(self, index) with a slice: type(self)(... for i in deslice).
getslice(st, index) ==
    LET d == deslice(st.items, index) IN
    IF d.err # NoErr THEN [st |-> Raise(st, d.err), val |-> <<>>]
    ELSE GetEach(st, d.seq, <<>>)

\* __getitem__(self, index) with anything else.
getindex(st, index) ==
    LET p == posintify(st.items, index) IN
    IF p.err # NoErr THEN [st |-> Raise(st, p.err), val |-> 0]
    ELSE ListGetitem(st, p.val)

(***************************************************************************)
(* __delitem__ and insert                                                  *)
(***************************************************************************)
\* for i in idx: _delitem(self, i); a failing primitive ends the loop.
RECURSIVE DelEach(_, _)
DelEach(st, idx) ==
    IF idx = <<>> THEN st
    ELSE LET s1 == ListDelitem(st, Head(idx)) IN
         IF s1.err # NoErr THEN s1 ELSE DelEach(s1, Tail(idx))

\* reversed(r) of a range r: its members, last first.
reversed(r) == Rev(r)

\* __delitem__(self, index) with a slice.
delslice(st, index) ==
    LET d == deslice(st.items, index) IN
    IF d.err # NoErr THEN Raise(st, d.err)
    ELSE DelEach(st, reversed(d.seq))

\* __delitem__(self, index) with anything else.
delindex(st, index) ==
    LET p == posintify(st.items, index) IN
    IF p.err # NoErr THEN Raise(st, p.err)
    ELSE ListDelitem(st, p.val)

\* insert(self, index, value)
insert(st, index, v) ==
    LET p == posinttruncify(st.items, index) IN
    IF p.err # NoErr THEN Raise(st, p.err)
    ELSE ListInsert(st, p.val, v)

(***************************************************************************)
(* __setitem__                                                             *)
(***************************************************************************)
\* __setitem__(self, index, value) with an index.
setindex(st, index, v) ==
    LET p == posintify(st.items, index) IN
    IF p.err # NoErr THEN Raise(st, p.err)
    ELSE ListSetitem(st, p.val, v)

\* tuple(self): Sequence.__iter__ reads self[0], self[1], ... through the
\* augmented __getitem__ until it raises IndexError.
RECURSIVE TupleOfSelf(_, _, _)
TupleOfSelf(st, i, acc) ==
    LET r == getindex(st, [kind |-> "int", val |-> i]) IN
    IF r.st.err = "IndexError" THEN [st |-> st, val |-> acc]
    ELSE IF r.st.err # NoErr THEN [st |-> r.st, val |-> acc]
    ELSE TupleOfSelf(r.st, i + 1, Append(acc, r.val))

\* tuple(value): TypeError for a value that is not iterable.
tuple(st, value) ==
    CASE value.kind = "self" -> TupleOfSelf(st, 0, <<>>)
      [] value.kind = "seq"  -> [st |-> st, val |-> value.vals]
      [] OTHER               -> [st |-> Raise(st, "TypeError"), val |-> <<>>]

\* for i, v in zip(indices, values): self[i] = v
RECURSIVE SetEach(_, _, _)
SetEach(st, idx, values) ==
    IF idx = <<>> \/ values = <<>> THEN st
    ELSE LET s1 == setindex(st, [kind |-> "int", val |-> Head(idx)], Head(values)) IN
         IF s1.err # NoErr THEN s1 ELSE SetEach(s1, Tail(idx), Tail(values))

\* The insert loop with every value inserted at the same index.
RECURSIVE InsertEachSameSlot(_, _, _)
InsertEachSameSlot(st, i, values) ==
    IF values = <<>> THEN st
    ELSE LET s1 == ListInsert(st, i, Head(values)) IN
         IF s1.err # NoErr THEN s1 ELSE InsertEachSameSlot(s1, i, Tail(values))

\* for i, value in enumerate(values, start=i): _insert(self, i, value)
RECURSIVE InsertEach(_, _, _)
InsertEach(st, i, values) ==
    IF values = <<>> THEN st
    ELSE LET s1 == ListInsert(st, i, Head(values)) IN
         IF s1.err # NoErr THEN s1 ELSE InsertEach(s1, i + 1, Tail(values))

\* The extended branch without the length check: zip stops at the shorter.
setextendedNoCheck(st, indices, value) ==
    LET t == tuple(st, value) IN
    IF t.st.err # NoErr THEN t.st
    ELSE SetEach(t.st, indices.seq, t.val)

\* for i, v in zip(indices, self): self[i] = v, reading self as it goes.
RECURSIVE SetEachFromSelf(_, _, _)
SetEachFromSelf(st, idx, k) ==
    IF idx = <<>> THEN st
    ELSE LET r == getindex(st, [kind |-> "int", val |-> k]) IN
         IF r.st.err = "IndexError" THEN st
         ELSE IF r.st.err # NoErr THEN r.st
         ELSE LET s1 == setindex(r.st, [kind |-> "int", val |-> Head(idx)], r.val) IN
              IF s1.err # NoErr THEN s1 ELSE SetEachFromSelf(s1, Tail(idx), k + 1)

\* The extended branch with no copy taken: len(value) is compared and the
\* value is iterated while the container is being written.
setextendedNoCopy(st, indices, value) ==
    CASE value.kind = "self" ->
            IF Len(st.items) # Len(indices.seq) THEN Raise(st, "ValueError:size")
            ELSE SetEachFromSelf(st, indices.seq, 0)
      [] value.kind = "seq" ->
            IF Len(value.vals) # Len(indices.seq) THEN Raise(st, "ValueError:size")
            ELSE SetEach(st, indices.seq, value.vals)
      [] OTHER -> Raise(st, "TypeError")

\* The branch for a step that is present and not 1.
setextended(st, indices, value) ==
    LET t == tuple(st, value) IN
    IF t.st.err # NoErr THEN t.st
    ELSE IF Len(t.val) # Len(indices.seq) THEN Raise(t.st, "ValueError:size")
    ELSE SetEach(t.st, indices.seq, t.val)

\* values = tuple(value) if value is self else iter(value); an iterator
\* over a sequence that is not the container yields what tuple() would.
snapshot(st, value) == tuple(st, value)

\* The contiguous branch deleting the range first index first.
setcontiguousForward(st, indices, value) ==
    LET t == snapshot(st, value) IN
    IF t.st.err # NoErr THEN t.st
    ELSE LET s1 == DelEach(t.st, indices.seq) IN
         IF s1.err # NoErr THEN s1
         ELSE InsertEach(s1, indices.start, t.val)

\* The contiguous branch copying the value only after the deletes.
setcontiguousLateCopy(st, indices, value) ==
    IF value.kind = "noniter" THEN Raise(st, "TypeError")
    ELSE LET s1 == DelEach(st, reversed(indices.seq)) IN
         IF s1.err # NoErr THEN s1
         ELSE LET t == snapshot(s1, value) IN
              IF t.st.err # NoErr THEN t.st
              ELSE InsertEach(t.st, indices.start, t.val)

\* The branch for a step that is absent or 1.
setcontiguous(st, indices, value) ==
    LET t == snapshot(st, value) IN
    IF t.st.err # NoErr THEN t.st
    ELSE LET s1 == DelEach(t.st, reversed(indices.seq)) IN
         IF s1.err # NoErr THEN s1
         ELSE InsertEach(s1, indices.start, t.val)

\* __setitem__(self, index, value) with a slice.
setslice(st, index, value) ==
    LET d == deslice(st.items, index) IN
    IF d.err # NoErr THEN Raise(st, d.err)
    ELSE IF index.step # None /\ index.step # Some(1)
         THEN setextended(st, d, value)
         ELSE setcontiguous(st, d, value)

(***************************************************************************)
(* The arguments that are tried                                            *)
(***************************************************************************)
IndexVals == (0 - (MaxLen + 2))..(MaxLen + 2)

\* An int, an object whose __index__() returns val, an object without one.
Indices ==
    [kind : {"int", "index"}, val : IndexVals] \cup {[kind |-> "bad", val |-> 0]}

Opt(S) == {None} \cup {Some(v) : v \in S}

Slices ==
    [start : Opt(IndexVals), stop : Opt(IndexVals),
     step : Opt((0 - MaxStep)..MaxStep)]

\* What is assigned to a slice: the container itself, another sequence
\* (of 0..MaxLen fresh values) or a value that is not iterable.
Sources ==
    {[kind |-> "self"], [kind |-> "noniter"]}
        \cup {[kind |-> "seq", vals |-> Fresh(k)] : k \in 0..MaxLen}

\* The value stored by a[i] = v and a.insert(i, v).
NewVal == 0 - 1

NoCall == [op |-> "none"]

(***************************************************************************)
(* Actions                                                                 *)
(***************************************************************************)
Returned(st) ==
    /\ items' = st.items
    /\ log' = st.log
    /\ pc' = "returned"
    /\ old' = items

Init ==
    /\ items \in {Range0(n) : n \in 0..MaxLen}
    /\ pc = "built"
    /\ call = NoCall
    /\ old = items
    /\ log = <<>>
    /\ result = [kind |-> "none"]

\* a = List(range(n))
Construct ==
    \E n \in 0..MaxLen :
        /\ items' = Range0(n)
        /\ pc' = "built"
        /\ call' = NoCall
        /\ old' = Range0(n)
        /\ log' = <<>>
        /\ result' = [kind |-> "none"]

\* a[i]
GetIndex ==
    /\ pc = "built"
    /\ \E index \in Indices :
        LET r == getindex(Start(items), index) IN
        /\ Returned(r.st)
        /\ call' = [op |-> "getindex", index |-> index]
        /\ result' = IF r.st.err # NoErr
                     THEN [kind |-> "raise", err |-> r.st.err]
                     ELSE [kind |-> "elem", val |-> r.val]

\* a[start:stop:step]
GetSlice ==
    /\ pc = "built"
    /\ \E index \in Slices :
        LET r == getslice(Start(items), index) IN
        /\ Returned(r.st)
        /\ call' = [op |-> "getslice", index |-> index]
        /\ result' = IF r.st.err # NoErr
                     THEN [kind |-> "raise", err |-> r.st.err]
                     ELSE [kind |-> "seq", val |-> r.val]

Outcome(st) ==
    IF st.err # NoErr THEN [kind |-> "raise", err |-> st.err] ELSE [kind |-> "done"]

\* del a[i]
DelIndex ==
    /\ pc = "built"
    /\ \E index \in Indices :
        LET st == delindex(Start(items), index) IN
        /\ Returned(st)
        /\ call' = [op |-> "delindex", index |-> index]
        /\ result' = Outcome(st)

\* del a[start:stop:step]
DelSlice ==
    /\ pc = "built"
    /\ \E index \in Slices :
        LET st == delslice(Start(items), index) IN
        /\ Returned(st)
        /\ call' = [op |-> "delslice", index |-> index]
        /\ result' = Outcome(st)

\* a.insert(i, v)
Insert ==
    /\ pc = "built"
    /\ \E index \in Indices :
        LET st == insert(Start(items), index, NewVal) IN
        /\ Returned(st)
        /\ call' = [op |-> "insert", index |-> index]
        /\ result' = Outcome(st)

\* a[i] = v
SetIndex ==
    /\ pc = "built"
    /\ \E index \in Indices :
        LET st == setindex(Start(items), index, NewVal) IN
        /\ Returned(st)
        /\ call' = [op |-> "setindex", index |-> index]
        /\ result' = Outcome(st)

\* a[start:stop:step] = value
SetSlice ==
    /\ pc = "built"
    /\ \E index \in Slices, value \in Sources :
        LET st == setslice(Start(items), index, value) IN
        /\ Returned(st)
        /\ call' = [op |-> "setslice", index |-> index, value |-> value]
        /\ result' = Outcome(st)

Next ==
    \/ Construct
    \/ GetIndex
    \/ GetSlice
    \/ DelIndex
    \/ DelSlice
    \/ Insert
    \/ SetIndex
    \/ SetSlice

Spec == Init /\ [][Next]_vars

(***************************************************************************)
(* Reference semantics of list and tuple indexing, stated on sets of       *)
(* positions rather than computed as the helper computes them.             *)
(***************************************************************************)
Min(a, b) == IF a <= b THEN a ELSE b

\* A bound of a slice with a positive step: wrapped, then kept in [0, n].
RefBound(x, n) == IF x < 0 THEN Max(x + n, 0) ELSE Min(x, n)

\* A bound of a slice with a negative step: wrapped, then kept in [-1, n-1].
RefBoundDown(x, n) == IF x < 0 THEN Max(x + n, 0 - 1) ELSE Min(x, n - 1)

RefStart(sl, n) == IF sl.start = None THEN 0 ELSE RefBound(sl.start[1], n)
RefStop(sl, n) == IF sl.stop = None THEN n ELSE RefBound(sl.stop[1], n)

\* The positions a slice selects from a sequence of length n.
RefPositions(sl, n) ==
    LET k == IF sl.step = None THEN 1 ELSE sl.step[1] IN
    IF k > 0
    THEN LET lo == RefStart(sl, n)
             hi == RefStop(sl, n)
         IN  {p \in 0..(n - 1) : lo <= p /\ p < hi /\ (p - lo) % k = 0}
    ELSE LET hi == IF sl.start = None THEN n - 1 ELSE RefBoundDown(sl.start[1], n)
             lo == IF sl.stop = None THEN 0 - 1 ELSE RefBoundDown(sl.stop[1], n)
         IN  {p \in 0..(n - 1) : lo < p /\ p <= hi /\ (hi - p) % (0 - k) = 0}

Ascending(S) ==
    [k \in 1..Cardinality(S) |->
        CHOOSE p \in S : Cardinality({q \in S : q < p}) = k - 1]

\* The Index Range: the selected positions, ascending for a positive step
\* and descending for a negative one.
RefRange(sl, n) ==
    IF sl.step # None /\ sl.step[1] < 0
    THEN Rev(Ascending(RefPositions(sl, n)))
    ELSE Ascending(RefPositions(sl, n))

\* The elements of s at the positions outside P, in order.
RECURSIVE Without(_, _, _)
Without(s, P, p) ==
    IF s = <<>> THEN <<>>
    ELSE (IF p \in P THEN <<>> ELSE <<Head(s)>>) \o Without(Tail(s), P, p + 1)

(***************************************************************************)
(* Properties                                                              *)
(***************************************************************************)
Called(op) == pc = "returned" /\ call.op = op

\* The call's index is an integer or converts to one.
Integral == call.index.kind # "bad"

NonZeroStep == call.index.step # Some(0)

Contiguous == call.index.step = None \/ call.index.step = Some(1)

Extended == ~Contiguous /\ NonZeroStep

Raised(e) == result.kind = "raise" /\ result.err = e

\* The elements the assigned value denoted when the call was made.
SourceElems == IF call.value.kind = "self" THEN old ELSE call.value.vals

\* C1: on a sequence of length n, a[i] for 0 <= i < n is the i-th element,
\* and a[i] for -n <= i < 0 is the element a[n+i] returns.
C1_GetIndex ==
    Called("getindex") /\ Integral =>
        LET n == Len(old)
            i == call.index.val
        IN  /\ 0 <= i /\ i < n =>
                result.kind = "elem" /\ result.val = old[i + 1]
            /\ 0 - n <= i /\ i < 0 =>
                result.kind = "elem" /\ result.val = old[n + i + 1]

C1_Witness ==
    /\ Called("getindex")
    /\ old = Range0(5)
    /\ call.index = [kind |-> "int", val |-> 0 - 2]
    /\ result = [kind |-> "elem", val |-> 3]

\* C2: a[i], a[i] = v and del a[i] raise IndexError exactly when i < -n or
\* i >= n (n = 0 included); then no primitive was called and the contents
\* are as before.
C2_OutOfRange ==
    pc = "returned" /\ call.op \in {"getindex", "setindex", "delindex"} /\ Integral =>
        LET n == Len(old)
            i == call.index.val
        IN  /\ Raised("IndexError") <=> (i < 0 - n \/ i >= n)
            /\ Raised("IndexError") => log = <<>> /\ items = old

C2_Witness ==
    /\ Called("setindex")
    /\ old = <<>>
    /\ call.index = [kind |-> "int", val |-> 0 - 1]
    /\ Raised("IndexError")
    /\ log = <<>>

\* C3: a[start:stop:step] with a non-zero step is a sequence as long as the
\* Index Range whose k-th element is the element at the range's k-th
\* position; range(5)[3::-2] is [3, 1].
C3_GetSlice ==
    Called("getslice") /\ NonZeroStep =>
        LET r == RefRange(call.index, Len(old)) IN
        /\ result.kind = "seq"
        /\ Len(result.val) = Len(r)
        /\ \A k \in 1..Len(r) : result.val[k] = old[r[k] + 1]
        /\ items = old

C3_Witness ==
    /\ Called("getslice")
    /\ old = Range0(5)
    /\ call.index = [start |-> Some(3), stop |-> None, step |-> Some(0 - 2)]
    /\ result = [kind |-> "seq", val |-> <<3, 1>>]

\* C3, inverted bounds: a[4:1] is empty.
C3_WitnessEmpty ==
    /\ Called("getslice")
    /\ old = Range0(5)
    /\ call.index = [start |-> Some(4), stop |-> Some(1), step |-> None]
    /\ result = [kind |-> "seq", val |-> <<>>]

\* C4: del a[start:stop:step] with a non-zero step of either sign deletes
\* every position of the Index Range, highest index first, and leaves the
\* elements at the other positions in their order.
C4_DelSlice ==
    Called("delslice") /\ NonZeroStep =>
        LET P == RefPositions(call.index, Len(old)) IN
        /\ result.kind = "done"
        /\ Len(log) = Cardinality(P)
        /\ \A k \in 1..Len(log) :
            /\ log[k].prim = "del"
            /\ log[k].i \in P
            /\ k > 1 => log[k].i < log[k - 1].i
        /\ items = Without(old, P, 0)

\* C4 as the code has it: the claim for a positive or absent step.
C4_DelSlicePositiveStep ==
    Called("delslice") /\ NonZeroStep
        /\ (call.index.step = None \/ call.index.step[1] > 0) =>
        LET P == RefPositions(call.index, Len(old)) IN
        /\ result.kind = "done"
        /\ Len(log) = Cardinality(P)
        /\ \A k \in 1..Len(log) :
            /\ log[k].prim = "del"
            /\ log[k].i \in P
            /\ k > 1 => log[k].i < log[k - 1].i
        /\ items = Without(old, P, 0)

C4_WitnessPositiveStep ==
    /\ Called("delslice")
    /\ old = Range0(5)
    /\ call.index = [start |-> None, stop |-> None, step |-> Some(2)]
    /\ items = <<1, 3>>

\* old[:start'] + v + old[max(start', stop'):] for the call's slice.
Spliced(v) ==
    LET n == Len(old)
        a == RefStart(call.index, n)
        b == RefStop(call.index, n)
    IN  Slice(old, 0, a) \o v \o Slice(old, Max(a, b), n)

\* C5: a[start:stop] = v with step absent or 1 and v a sequence other than
\* the container leaves old[:start'] + v + old[max(start', stop'):], the
\* bounds normalized against the old length.
C5_SetContiguous ==
    Called("setslice") /\ Contiguous /\ call.value.kind = "seq" =>
        /\ result.kind = "done"
        /\ items = Spliced(call.value.vals)

\* range(5) with a[2:3] = [x, y] grows by one.
C5_Witness ==
    /\ Called("setslice")
    /\ old = Range0(5)
    /\ call.index = [start |-> Some(2), stop |-> Some(3), step |-> None]
    /\ call.value = [kind |-> "seq", vals |-> Fresh(2)]
    /\ items = <<0, 1, 0 - 1, 0 - 2, 3, 4>>

\* start > stop: nothing is deleted and v is inserted at start.
C5_WitnessInverted ==
    /\ Called("setslice")
    /\ old = Range0(5)
    /\ call.index = [start |-> Some(3), stop |-> Some(1), step |-> Some(1)]
    /\ call.value = [kind |-> "seq", vals |-> Fresh(2)]
    /\ items = <<0, 1, 2, 0 - 1, 0 - 2, 3, 4>>

\* The call a[:-1] = a.
SelfButLast ==
    /\ Called("setslice")
    /\ call.index = [start |-> None, stop |-> Some(0 - 1), step |-> None]
    /\ call.value.kind = "self"

\* C6 as stated: a[:-1] = a on a length-n sequence yields a result of
\* length 2n-1, the original elements followed by the original elements
\* from index 1 onward.
C6_AsStated ==
    SelfButLast =>
        /\ Len(items) = 2 * Len(old) - 1
        /\ items = old \o Slice(old, 1, Len(old))

\* C6 amended: a[:-1] = a on a length-n sequence with n >= 1 yields a
\* result of length n+1, the original elements followed by the original
\* last element; an empty sequence stays empty.
C6_SelfButLast ==
    SelfButLast =>
        /\ result.kind = "done"
        /\ Len(old) >= 1 =>
            /\ Len(items) = Len(old) + 1
            /\ items = old \o <<old[Len(old)]>>
        /\ Len(old) = 0 => items = <<>>

C6_Witness ==
    /\ SelfButLast
    /\ old = Range0(5)
    /\ items = <<0, 1, 2, 3, 4, 4>>

\* The primitives of the kinds in K that the call issued.
CallsOf(K) == {k \in 1..Len(log) : log[k].prim \in K}

\* C7: a[i:j] = a takes its snapshot of a before the first primitive delete
\* or insert, ends after finitely many primitive calls (n reads, the
\* deletes of the slice, n inserts) and leaves
\* old[:i'] + old + old[max(i', j'):].
C7_SelfAssign ==
    Called("setslice") /\ Contiguous /\ call.value.kind = "self" =>
        LET n == Len(old)
            d == Max(RefStop(call.index, n) - RefStart(call.index, n), 0)
        IN  /\ result.kind = "done"
            /\ items = Spliced(old)
            /\ CallsOf({"get"}) = 1..n
            /\ \A k \in 1..n : log[k].i = k - 1
            /\ Len(log) = n + d + n

C7_Witness ==
    /\ Called("setslice")
    /\ old = Range0(5)
    /\ call.index = [start |-> Some(1), stop |-> Some(0 - 1), step |-> None]
    /\ call.value.kind = "self"
    /\ items = <<0, 0, 1, 2, 3, 4, 4>>

\* C8: a[start:stop:step] = v with a step that is present and not 1 raises
\* the size mismatch exactly when len(v) differs from the length of the
\* Index Range, and then before any primitive set: the contents are as
\* before.
C8_SizeMismatch ==
    Called("setslice") /\ Extended /\ call.value.kind \in {"seq", "self"} =>
        LET r == RefRange(call.index, Len(old)) IN
        /\ Raised("ValueError:size") <=> Len(SourceElems) # Len(r)
        /\ Raised("ValueError:size") =>
            items = old /\ CallsOf({"set", "del", "ins"}) = {}

C8_Witness ==
    /\ Called("setslice")
    /\ old = Range0(5)
    /\ call.index = [start |-> None, stop |-> None, step |-> Some(2)]
    /\ call.value = [kind |-> "seq", vals |-> Fresh(2)]
    /\ Raised("ValueError:size")

\* C9: a[start:stop:step] = v with a step that is present and not 1 and v
\* of the range's length (v may be a itself) stores the k-th element v had
\* at the k-th position of the Index Range and changes neither the other
\* positions nor the length.
C9_SetExtended ==
    Called("setslice") /\ Extended /\ call.value.kind \in {"seq", "self"}
        /\ Len(SourceElems) = Len(RefRange(call.index, Len(old))) =>
        LET r == RefRange(call.index, Len(old)) IN
        /\ result.kind = "done"
        /\ Len(items) = Len(old)
        /\ \A k \in 1..Len(r) : items[r[k] + 1] = SourceElems[k]
        /\ \A p \in 0..(Len(old) - 1) :
            p \notin RefPositions(call.index, Len(old)) => items[p + 1] = old[p + 1]

\* a[::-1] = a reverses a.
C9_Witness ==
    /\ Called("setslice")
    /\ old = Range0(4)
    /\ call.index = [start |-> None, stop |-> None, step |-> Some(0 - 1)]
    /\ call.value.kind = "self"
    /\ items = <<3, 2, 1, 0>>

\* C10: a.insert(i, v) never raises on range: it calls the primitive insert
\* once, at clamp(i if i >= 0 else i + n, 0, n), so v is there and the
\* other elements keep their order.
C10_Insert ==
    Called("insert") /\ Integral =>
        LET n == Len(old)
            i == call.index.val
            w == IF i >= 0 THEN i ELSE i + n
            pos == Max(0, Min(w, n))
        IN  /\ result.kind = "done"
            /\ log = <<[prim |-> "ins", i |-> pos, len |-> n]>>
            /\ Len(items) = n + 1
            /\ items = Slice(old, 0, pos) \o <<NewVal>> \o Slice(old, pos, n)

\* insert far to the left puts v first.
C10_Witness ==
    /\ Called("insert")
    /\ old = Range0(5)
    /\ call.index = [kind |-> "int", val |-> 0 - 7]
    /\ items = <<NewVal, 0, 1, 2, 3, 4>>

\* insert far to the right puts v last.
C10_WitnessRight ==
    /\ Called("insert")
    /\ old = Range0(5)
    /\ call.index = [kind |-> "int", val |-> 7]
    /\ items = <<0, 1, 2, 3, 4, NewVal>>

(***************************************************************************)
(* collectionhelpers.mapping_helper decorating a class like FrozenKeyDict  *)
(* of test.py.  Under MapSpec the variable items holds the mapping under   *)
(* test, [missing, dict]: whether its class defines __missing__, and       *)
(* self._dict as a function; log holds the calls of the author's           *)
(* __getitem__ and __missing__.                                            *)
(***************************************************************************)
\* Keys that are exception classes: __missing__ raises them.
ExcKeys == {"RuntimeError", "KeyError"}

\* A key whose __hash__ raises Exc (BadHash with fail = True).
BadHash == "BadHash"

\* The keys a dict is built with, and the keys that are looked up.
StoredKeys == {"a", "b", "RuntimeError"}
LookupKeys == {"a", "b", "z"} \cup ExcKeys \cup {BadHash}

MapVals == {"v", "w"}

\* The default passed to get(key, default); "None" is the default's default.
Defaults == {"None", "d"}

Dicts == UNION {[D -> MapVals] : D \in SUBSET StoredKeys}

\* An operation's state: the calls made, the exception raised, the value.
MStart == [log |-> <<>>, err |-> NoErr, val |-> "None"]

MLogged(m, p, key) == [m EXCEPT !.log = Append(@, [prim |-> p, key |-> key])]

\* FrozenKeyDict.__getitem__: return self._dict[key]
FrozenKeyDictGetitem(self, key, m) ==
    LET m1 == MLogged(m, "getitem", key) IN
    IF key = BadHash THEN [m1 EXCEPT !.err = "Exc"]
    ELSE IF key \in DOMAIN self.dict THEN [m1 EXCEPT !.val = self.dict[key]]
    ELSE [m1 EXCEPT !.err = "KeyError"]

\* FrozenKeyDict.__missing__: raise key() for an exception class, else
\* return key.
FrozenKeyDictMissing(self, key, m) ==
    LET m1 == MLogged(m, "missing", key) IN
    IF key \in ExcKeys THEN [m1 EXCEPT !.err = key]
    ELSE [m1 EXCEPT !.val = key]

\* The augmented __getitem__ with the value of __missing__ dropped.
mapping_getitemNoReturn(self, key) ==
    LET r == FrozenKeyDictGetitem(self, key, MStart) IN
    IF r.err # "KeyError" THEN r
    ELSE IF self.missing
         THEN LET h == FrozenKeyDictMissing(self, key, [r EXCEPT !.err = NoErr]) IN
              IF h.err # NoErr THEN h ELSE [h EXCEPT !.err = "KeyError", !.val = "None"]
         ELSE r

\* mapping_helper.__getitem__: the author's __getitem__; on KeyError the
\* class's __missing__ when it has one, else the KeyError again.
mapping_getitem(self, key) ==
    LET r == FrozenKeyDictGetitem(self, key, MStart) IN
    IF r.err # "KeyError" THEN r
    ELSE IF self.missing
         THEN FrozenKeyDictMissing(self, key, [r EXCEPT !.err = NoErr])
         ELSE r

\* Mapping.__contains__, which the helper replaces: it tests self[key].
mapping_containsInherited(self, key) ==
    LET r == mapping_getitem(self, key) IN
    IF r.err = "KeyError" THEN [r EXCEPT !.err = NoErr, !.val = "False"]
    ELSE IF r.err # NoErr THEN r
    ELSE [r EXCEPT !.val = "True"]

\* mapping_helper.__contains__: the author's __getitem__; KeyError is False.
mapping_contains(self, key) ==
    LET r == FrozenKeyDictGetitem(self, key, MStart) IN
    IF r.err = "KeyError" THEN [r EXCEPT !.err = NoErr, !.val = "False"]
    ELSE IF r.err # NoErr THEN r
    ELSE [r EXCEPT !.val = "True"]

\* mapping_helper.get: the author's __getitem__; KeyError is the default.
mapping_get(self, key, default) ==
    LET r == FrozenKeyDictGetitem(self, key, MStart) IN
    IF r.err = "KeyError" THEN [r EXCEPT !.err = NoErr, !.val = default]
    ELSE r

MReturned(m) ==
    /\ UNCHANGED items
    /\ log' = m.log
    /\ pc' = "returned"
    /\ old' = items
    /\ result' = IF m.err # NoErr
                 THEN [kind |-> "raise", err |-> m.err]
                 ELSE [kind |-> "value", val |-> m.val]

MapInit ==
    /\ items \in [missing : BOOLEAN, dict : Dicts]
    /\ pc = "built"
    /\ call = NoCall
    /\ old = items
    /\ log = <<>>
    /\ result = [kind |-> "none"]

\* d[key]
MapGetItem ==
    /\ pc = "built"
    /\ \E key \in LookupKeys :
        /\ MReturned(mapping_getitem(items, key))
        /\ call' = [op |-> "mapgetitem", key |-> key]

\* key in d
MapContains ==
    /\ pc = "built"
    /\ \E key \in LookupKeys :
        /\ MReturned(mapping_contains(items, key))
        /\ call' = [op |-> "mapcontains", key |-> key]

\* d.get(key, default)
MapGet ==
    /\ pc = "built"
    /\ \E key \in LookupKeys, default \in Defaults :
        /\ MReturned(mapping_get(items, key, default))
        /\ call' = [op |-> "mapget", key |-> key, default |-> default]

MapNext ==
    \/ MapGetItem
    \/ MapContains
    \/ MapGet

MapSpec == MapInit /\ [][MapNext]_vars

\* The calls of __missing__ the operation made.
HookCalls == {k \in 1..Len(log) : log[k].prim = "missing"}

Found == call.key \in DOMAIN old.dict

Returns(v) == result.kind = "value" /\ result.val = v

\* C11: d[key] returns the stored value without calling __missing__ when
\* the key is found; when it is absent and __missing__ is defined, calls it
\* exactly once with that key and returns its value or lets its exception
\* through unchanged; when it is absent and there is no __missing__, raises
\* KeyError.
C11_MapGetItem ==
    Called("mapgetitem") /\ call.key # BadHash =>
        /\ Found => Returns(old.dict[call.key]) /\ HookCalls = {}
        /\ ~Found /\ old.missing =>
            /\ Cardinality(HookCalls) = 1
            /\ \A k \in HookCalls : log[k].key = call.key
            /\ IF call.key \in ExcKeys THEN Raised(call.key) ELSE Returns(call.key)
        /\ ~Found /\ ~old.missing => Raised("KeyError") /\ HookCalls = {}

\* {'a': v} with __missing__ returning the key: d['z'] is 'z'.
C11_Witness ==
    /\ Called("mapgetitem")
    /\ old.missing
    /\ DOMAIN old.dict = {"a"}
    /\ call.key = "z"
    /\ Returns("z")
    /\ Cardinality(HookCalls) = 1

\* The exception __missing__ raises comes through as it is.
C11_WitnessRaise ==
    /\ Called("mapgetitem")
    /\ old.missing
    /\ DOMAIN old.dict = {"a"}
    /\ call.key = "RuntimeError"
    /\ Raised("RuntimeError")

\* C12: key in d and d.get(key, default) never call __missing__, whether
\* the key is there or not and whether __missing__ is defined or not: the
\* first is true exactly when the key is found, the second is the found
\* value or else the default.
C12_NoHook ==
    /\ Called("mapcontains") /\ call.key # BadHash =>
        /\ HookCalls = {}
        /\ Returns(IF Found THEN "True" ELSE "False")
    /\ Called("mapget") /\ call.key # BadHash =>
        /\ HookCalls = {}
        /\ Returns(IF Found THEN old.dict[call.key] ELSE call.default)

\* An absent key with __missing__ defined: not contained.
C12_Witness ==
    /\ Called("mapcontains")
    /\ old.missing
    /\ DOMAIN old.dict = {"a"}
    /\ call.key = "z"
    /\ Returns("False")
    /\ Len(log) = 1

\* An absent key with __missing__ defined: get gives the default.
C12_WitnessGet ==
    /\ Called("mapget")
    /\ old.missing
    /\ DOMAIN old.dict = {"a"}
    /\ call.key = "z"
    /\ call.default = "d"
    /\ Returns("d")

(***************************************************************************)
(* Validity of the primitive calls                                         *)
(***************************************************************************)
SeqOps ==
    {"getindex", "getslice", "setindex", "setslice", "delindex", "delslice", "insert"}

\* The k-th primitive call got an index the primitive accepts for the
\* length the container had at that call.
ValidCall(k) ==
    /\ 0 <= log[k].i
    /\ IF log[k].prim = "ins" THEN log[k].i <= log[k].len ELSE log[k].i < log[k].len

\* C13: in every augmented sequence operation (index or slice of either
\* sign, and insert) every primitive call passes an index valid at that
\* call: in [0, len) for get, set and delete, in [0, len] for insert, len
\* being the length after the deletes and inserts already made.
C13_ValidCalls ==
    pc = "returned" /\ call.op \in SeqOps =>
        \A k \in 1..Len(log) : ValidCall(k)

\* C13 as the code has it: every operation but the delete of a slice with
\* a negative step.
C13_ValidCallsButNegativeDelete ==
    pc = "returned" /\ call.op \in SeqOps
        /\ ~(call.op = "delslice" /\ call.index.step # None /\ call.index.step[1] < 0) =>
        \A k \in 1..Len(log) : ValidCall(k)

(***************************************************************************)
(* a[start:stop] = a._list: the value is the list the container keeps its  *)
(* elements in, not the container.  iter(value) is then a list iterator    *)
(* over the storage the loop is inserting into, and the loop need not end: *)
(* under ViewSpec the deletes are one step and every turn of the insert    *)
(* loop is a step of its own, followed for MaxViewReads turns.             *)
(* result holds the iterator and the index of the next insert.             *)
(***************************************************************************)
\* The turns of the insert loop that are followed.
MaxViewReads == 4

TheView == [kind |-> "view"]

\* values = tuple(value), whatever the value is.
valuesOfViewCopied(its) == [live |-> FALSE, vals |-> its, k |-> 0]

\* values = iter(value) for a value that is not self: nothing is read yet.
valuesOfView(its) == [live |-> TRUE, vals |-> <<>>, k |-> 0]

\* What next(values) reads from: the storage as it is now, or the copy.
Backing(it, its) == IF it.live THEN its ELSE it.vals

\* Whether next(values) yields a value rather than raising StopIteration.
HasNext(it, its) == it.k < Len(Backing(it, its))

Running == [items |-> items, log |-> log, err |-> NoErr]

\* Lines 159-166 of __setitem__: the iterator is made, the range deleted.
ViewBegin ==
    /\ pc = "built"
    /\ \E index \in {sl \in Slices : sl.step = None \/ sl.step = Some(1)} :
        LET d == deslice(items, index)
            st == DelEach(Start(items), reversed(d.seq))
        IN  /\ items' = st.items
            /\ log' = st.log
            /\ old' = items
            /\ call' = [op |-> "setslice", index |-> index, value |-> TheView]
            /\ IF st.err # NoErr
               THEN pc' = "returned" /\ result' = Outcome(st)
               ELSE /\ pc' = "inserting"
                    /\ result' = [kind |-> "running", it |-> valuesOfView(items),
                                  i |-> d.start]

\* One turn of the loop of lines 167-168: _insert(self, i, next(values)).
ViewInsert ==
    /\ pc = "inserting"
    /\ HasNext(result.it, items)
    /\ result.it.k < MaxViewReads
    /\ LET v == Backing(result.it, items)[result.it.k + 1]
           st == ListInsert(Running, result.i, v)
       IN  /\ items' = st.items
           /\ log' = st.log
           /\ IF st.err # NoErr
              THEN pc' = "returned" /\ result' = Outcome(st)
              ELSE /\ pc' = pc
                   /\ result' = [result EXCEPT !.it.k = @ + 1, !.i = @ + 1]
    /\ UNCHANGED <<call, old>>

\* next(values) raises StopIteration: the loop ends and __setitem__ returns.
ViewStop ==
    /\ pc = "inserting"
    /\ ~HasNext(result.it, items)
    /\ pc' = "returned"
    /\ result' = [kind |-> "done"]
    /\ UNCHANGED <<items, call, old, log>>

ViewNext ==
    \/ Construct
    \/ ViewBegin
    \/ ViewInsert
    \/ ViewStop

ViewSpec == Init /\ [][ViewNext]_vars

ViewAssigned == call.op = "setslice" /\ call.value = TheView

C14_WitnessEmptied ==
    /\ ViewAssigned
    /\ pc = "returned"
    /\ old = Range0(3)
    /\ call.index = [start |-> None, stop |-> None, step |-> None]
    /\ items = <<>>

=============================================================================
